---- MODULE Spec2Model ----
(***************************************************************************)
(* Generic-programming lessons: the sequential cursor algorithms of        *)
(* 3.iterators (reduce, transform, find, find_not, copy, the two-range     *)
(* reduce and its blocked variants), min/max/minmax_element, the           *)
(* partition point search, and the four-way chunked parallel_find_if of    *)
(* 5.parallel.                                                             *)
(*                                                                         *)
(* A position (cursor) of a range of n elements is a number 0..n, 0 being  *)
(* begin() and n being end(); the element at position p is vec[p + 1].     *)
(***************************************************************************)
EXTENDS Integers, Sequences, FiniteSets, TLC

\* ------------------------------------------------------------------ bounds
MaxN == 8          \* longest range handed to parallel_find_if
MaxNFair == 6      \* the same, in the runs that check progress
MaxLen == 4        \* most elements in the memory of the sequential algorithms
MaxVal == 1        \* their elements are 0..MaxVal
MaxOverrun == 1    \* cells read behind the last element before giving up
MaxTimes == 3      \* most applications of one in-place transform in a row
MaxDotInt == 5     \* longest pair of int ranges handed to the two-range reduces
MaxDot == 17       \* longest pair of string ranges handed to them
MaxMM == 5         \* most elements in the memory of min/max_element
MaxPP == 6         \* most elements in the memory of partition_point
MaxBS == 4         \* most elements in the memory of binary_search
MaxRepeats == 5    \* most repeats asked of timer::time
MaxTests == 3      \* most tests asked of timer::repeat
MaxTick == 2       \* longest trial, in clock ticks
MaxSort == 3       \* most elements in the vector test_sort sorts

Values == 0..MaxVal

\* ---------------------------------------------------------------- constants
NumWorkers == 4    \* the four std::async calls / the divisor of chunk_size
Workers == 1..NumWorkers

NoPos == -1        \* "no cursor yet" (a future not yet read, no result yet)
NoReturn == -2     \* "the call does not return"

VARIABLES
    \* --- 5.parallel: one call parallel_find_if(vec.begin(), vec.end(), pred)
    vec,           \* the caller's container
    mpc,           \* position of the calling thread: <<label, k>>
    chunk_size,    \* local chunk_size
    limit,         \* limit[k] = end of sub-range k (limit[4] = last)
    wpc,           \* worker k: "idle" | "run" | "loop" | "done"
    wfirst,        \* worker k's cursor `first`
    readBy,        \* positions worker k has dereferenced
    spin,          \* iterations parity of a predicate that loops forever
    finished,      \* worker ids in the order their our_find_if returned
    found,         \* found[k]: the value thread_k.get() gave, NoPos before
    ret,           \* the value parallel_find_if returns, NoPos before
    \* --- 3.iterators: the cursor algorithms and the find benchmark
    mem,           \* the elements the cursors range over, position p at mem[p + 1]
    mode,          \* "lib": the algorithms called directly; "bench": main.cpp
    lambda,        \* the benchmark closure being run, "none" between closures
    i,             \* loop variable i of the running closure
    call           \* the last call of an algorithm and what it did

parvars == <<vec, mpc, chunk_size, limit, wpc, wfirst, readBy, spin,
             finished, found, ret>>

seqvars == <<mem, mode, lambda, i, call>>

vars == <<vec, mpc, chunk_size, limit, wpc, wfirst, readBy, spin,
          finished, found, ret, mem, mode, lambda, i, call>>

\* ------------------------------------------------------------- helpers
SeqsUpTo(S, n) == UNION {[1..k -> S] : k \in 0..n}

first == 0
last == Len(vec)

\* The caller's predicate. A side-effect-free predicate splits the element
\* type into the elements it rejects, the elements it accepts and the
\* elements on which it does not return; one element stands for each class.
Elems == {"no", "yes", "hang"}

pred(e) == CASE e = "yes" -> "true"
             [] e = "no" -> "false"
             [] OTHER -> "loop"

\* our_find_if(first, last, pred) run to completion on positions f..l of v:
\* the position it returns, or NoReturn when a call of pred does not return
RECURSIVE our_find_if(_, _, _)
our_find_if(v, f, l) ==
    IF f = l THEN f
    ELSE CASE pred(v[f + 1]) = "true" -> f
           [] pred(v[f + 1]) = "false" -> our_find_if(v, f + 1, l)
           [] OTHER -> NoReturn

\* the 3.iterators programs are not running
NoCall == [op |-> "none", first |-> 0, last |-> 0, out |-> 0, value |-> 0,
           init |-> 0, fn |-> "none", before |-> <<>>, ret |-> NoPos,
           reads |-> <<>>, writes |-> <<>>, times |-> 0]

SeqOff ==
    /\ mem = <<>>
    /\ mode = "off"
    /\ lambda = "none"
    /\ i = 0
    /\ call = NoCall

\* ------------------------------------------------------------ parallel find
ParInitUpTo(n) ==
    /\ vec \in SeqsUpTo(Elems, n)
    /\ mpc = <<"split", 0>>
    /\ chunk_size = 0
    /\ limit = [k \in Workers |-> 0]
    /\ wpc = [k \in Workers |-> "idle"]
    /\ wfirst = [k \in Workers |-> NoPos]
    /\ readBy = [k \in Workers |-> {}]
    /\ spin = [k \in Workers |-> FALSE]
    /\ finished = <<>>
    /\ found = [k \in Workers |-> NoPos]
    /\ ret = NoPos
    /\ SeqOff

ParInit == ParInitUpTo(MaxN)

\* auto chunk_size = distance(first, last) / 4; limit1..limit3 = next(...)
ChunkSize == (last - first) \div NumWorkers

\* slip: the last sub-range ends after a fourth chunk, not at last
LimitsDropRest == [k \in Workers |-> first + k * ChunkSize]

Limits == [k \in Workers |->
             IF k = NumWorkers THEN last ELSE first + k * ChunkSize]

Split ==
    /\ mpc = <<"split", 0>>
    /\ chunk_size' = ChunkSize
    /\ limit' = Limits
    /\ mpc' = <<"launch", 1>>
    /\ UNCHANGED <<vec, wpc, wfirst, readBy, spin, finished, found, ret>>
    /\ UNCHANGED seqvars

\* slip: every worker starts at first
SubFirstOverlap(k) == first

\* begin of sub-range k: first for thread1, limit[k-1] for the others
SubFirst(k) == IF k = 1 THEN first ELSE limit[k - 1]

\* thread_k = std::async(std::launch::async, our_find_if, SubFirst, limit_k, pred)
Launch(k) ==
    /\ mpc = <<"launch", k>>
    /\ wpc' = [wpc EXCEPT ![k] = "run"]
    /\ wfirst' = [wfirst EXCEPT ![k] = SubFirst(k)]
    /\ mpc' = IF k = NumWorkers THEN <<"get", 1>> ELSE <<"launch", k + 1>>
    /\ UNCHANGED <<vec, chunk_size, limit, readBy, spin, finished, found, ret>>
    /\ UNCHANGED seqvars

\* one iteration of worker k's our_find_if loop
WorkerStep(k) ==
    /\ wpc[k] = "run"
    /\ IF wfirst[k] = limit[k]
       THEN \* first == last: return first
            /\ wpc' = [wpc EXCEPT ![k] = "done"]
            /\ finished' = Append(finished, k)
            /\ UNCHANGED <<wfirst, readBy>>
       ELSE /\ readBy' = [readBy EXCEPT ![k] = @ \cup {wfirst[k]}]
            /\ CASE pred(vec[wfirst[k] + 1]) = "true" ->
                      \* break; return first
                      /\ wpc' = [wpc EXCEPT ![k] = "done"]
                      /\ finished' = Append(finished, k)
                      /\ UNCHANGED wfirst
                 [] pred(vec[wfirst[k] + 1]) = "false" ->
                      /\ wfirst' = [wfirst EXCEPT ![k] = @ + 1]
                      /\ UNCHANGED <<wpc, finished>>
                 [] OTHER ->
                      \* the call pred(*first) does not return
                      /\ wpc' = [wpc EXCEPT ![k] = "loop"]
                      /\ UNCHANGED <<wfirst, finished>>
    /\ UNCHANGED <<vec, mpc, chunk_size, limit, spin, found, ret>>
    /\ UNCHANGED seqvars

\* a predicate that loops forever keeps its worker busy and never returns
PredLoop(k) ==
    /\ wpc[k] = "loop"
    /\ spin' = [spin EXCEPT ![k] = ~@]
    /\ UNCHANGED <<vec, mpc, chunk_size, limit, wpc, wfirst, readBy,
                   finished, found, ret>>
    /\ UNCHANGED seqvars

\* slip: the result is read without waiting for the worker
ReadyNoWait(k) == wpc[k] # "idle"

\* thread_k.get() blocks until worker k has returned
Ready(k) == wpc[k] = "done"

\* slip: every future is read before the results are ranked
GetInspectsAll(k) ==
    /\ mpc = <<"get", k>>
    /\ Ready(k)
    /\ found' = [found EXCEPT ![k] = wfirst[k]]
    /\ ret' = IF ret = NoPos /\ (k = NumWorkers \/ wfirst[k] # limit[k])
              THEN wfirst[k] ELSE ret
    /\ mpc' = IF k = NumWorkers THEN <<"destroy", NumWorkers>> ELSE <<"get", k + 1>>
    /\ UNCHANGED <<vec, chunk_size, limit, wpc, wfirst, readBy, spin, finished>>
    /\ UNCHANGED seqvars

\* found_k = thread_k.get(); if (found_k != limit_k) return found_k;
\* for k = 4: return thread4.get();
Get(k) ==
    /\ mpc = <<"get", k>>
    /\ Ready(k)
    /\ found' = [found EXCEPT ![k] = wfirst[k]]
    /\ IF k = NumWorkers \/ wfirst[k] # limit[k]
       THEN /\ ret' = wfirst[k]
            /\ mpc' = <<"destroy", NumWorkers>>
       ELSE /\ ret' = ret
            /\ mpc' = <<"get", k + 1>>
    /\ UNCHANGED <<vec, chunk_size, limit, wpc, wfirst, readBy, spin, finished>>
    /\ UNCHANGED seqvars

\* Leaving the function destroys thread4, thread3, thread2, thread1 in that
\* order. The destructor of a future made by std::async(std::launch::async)
\* whose result was not taken blocks until its worker has returned.
\* slip: the workers are detached, leaving the function waits for nobody
ReleasedDetached(k) == TRUE

Released(k) == found[k] # NoPos \/ wpc[k] = "done"

Destroy(k) ==
    /\ mpc = <<"destroy", k>>
    /\ Released(k)
    /\ mpc' = IF k = 1 THEN <<"returned", 0>> ELSE <<"destroy", k - 1>>
    /\ UNCHANGED <<vec, chunk_size, limit, wpc, wfirst, readBy, spin,
                   finished, found, ret>>
    /\ UNCHANGED seqvars

MainStep == Split \/ (\E k \in Workers : Launch(k) \/ Get(k) \/ Destroy(k))

ParNext ==
    \/ Split
    \/ \E k \in Workers : Launch(k)
    \/ \E k \in Workers : WorkerStep(k)
    \/ \E k \in Workers : PredLoop(k)
    \/ \E k \in Workers : Get(k)
    \/ \E k \in Workers : Destroy(k)

ParSpec == ParInit /\ [][ParNext]_vars

\* Threads are scheduled fairly: the calling thread and every worker that
\* can take a step eventually takes it.
ParFairSpec ==
    /\ ParInitUpTo(MaxNFair)
    /\ [][ParNext]_vars
    /\ WF_vars(MainStep)
    /\ \A k \in Workers : WF_vars(WorkerStep(k))

\* ----------------------------------------------------- parallel find: claims
Returned == mpc = <<"returned", 0>>

Sub(k) == SubFirst(k)..(limit[k] - 1)

HasMatch(k) == \E p \in Sub(k) : pred(vec[p + 1]) = "true"

Matches == {p \in 0..(Len(vec) - 1) : pred(vec[p + 1]) = "true"}

FirstMatch == IF Matches = {} THEN last
              ELSE CHOOSE p \in Matches : \A q \in Matches : p <= q

Inspected == {k \in Workers : found[k] # NoPos}

\* C1: on a non-empty range parallel_find_if returns what the sequential
\* our_find_if returns on the whole range: the first position where the
\* predicate holds, or the end position, under every interleaving.
C1_SameAsSequential ==
    (Returned /\ Len(vec) >= 1) =>
        /\ ret = our_find_if(vec, first, last)
        /\ ret = FirstMatch

\* the last element of a range whose length is not a multiple of 4 is found,
\* after the workers finished in an order other than 1, 2, 3, 4
C1_Witness ==
    /\ Returned
    /\ Len(vec) = 7
    /\ ret = 6
    /\ finished # <<1, 2, 3, 4>>

\* C2: the match of the lowest-numbered sub-range that has one is returned,
\* whatever order the workers finish in, and the results of the sub-ranges
\* after the winning one are not inspected.
Winner == IF \E k \in Workers : HasMatch(k)
          THEN CHOOSE k \in Workers :
                   HasMatch(k) /\ \A j \in Workers : HasMatch(j) => k <= j
          ELSE NumWorkers

C2_LowestSubrangeWins ==
    Returned =>
        /\ Inspected = 1..Winner
        /\ ret = our_find_if(vec, SubFirst(Winner), limit[Winner])
        /\ HasMatch(Winner) => ret \in Sub(Winner)

\* a later sub-range's worker reported its match first, and lost
C2_Witness ==
    /\ Returned
    /\ Winner = 1
    /\ chunk_size = 2
    /\ finished[1] = 3
    /\ HasMatch(3)
    /\ ret = 1

\* C3: four contiguous, pairwise disjoint sub-ranges that cover the range,
\* the first three of length floor(n/4); worker k reads only sub-range k,
\* so no position is read by two workers.
C3_DisjointSubranges ==
    (mpc[1] # "split") =>
        /\ SubFirst(1) = first /\ limit[NumWorkers] = last
        /\ \A k \in 1..(NumWorkers - 1) :
               limit[k] - SubFirst(k) = Len(vec) \div NumWorkers
        /\ limit[NumWorkers] - SubFirst(NumWorkers) =
               Len(vec) - (NumWorkers - 1) * (Len(vec) \div NumWorkers)
        /\ UNION {Sub(k) : k \in Workers} = 0..(Len(vec) - 1)
        /\ \A j, k \in Workers : j # k => Sub(j) \cap Sub(k) = {}
        /\ \A k \in Workers : readBy[k] \subseteq Sub(k)
        /\ \A j, k \in Workers : j # k => readBy[j] \cap readBy[k] = {}

\* every position of a range of 7 was read, each by the worker of its sub-range
C3_Witness ==
    /\ Returned
    /\ Len(vec) = 7
    /\ \A k \in Workers : readBy[k] = Sub(k)

\* C4 as stated: no result is compared with its limit while some worker is
\* still running (a join-all barrier before the first comparison).
C4_JoinAllBarrier ==
    (Inspected # {}) => \A k \in Workers : wpc[k] = "done"

\* C4 amended: the result of worker k is compared only after worker k has
\* returned (later workers may still run), and all four workers have
\* returned when the call returns.
C4_WaitsForEachInOrder ==
    /\ \A k \in Inspected : wpc[k] = "done" /\ found[k] = wfirst[k]
    /\ Returned => \A k \in Workers : wpc[k] = "done"

\* the first result has been compared while a later worker is still running
C4_Witness ==
    /\ 1 \in Inspected
    /\ \E k \in Workers : wpc[k] = "run"

\* C5: while a worker is stuck in a predicate that does not return, the call
\* does not return, whichever worker it is and whatever the others found;
\* and once all four workers have returned, the call returns.
C5_StallsOnHungWorker ==
    /\ []((\E k \in Workers : wpc[k] = "loop") => ~Returned)
    /\ ((\A k \in Workers : wpc[k] = "done") ~> Returned)

\* sub-range 1 has a match and was taken as the result, worker 4 is stuck, and
\* the caller is blocked leaving the function
C5_Witness ==
    /\ wpc[NumWorkers] = "loop"
    /\ ret # NoPos /\ ret \in Sub(1)
    /\ mpc = <<"destroy", NumWorkers>>

\* ------------------------------------------------- 3.iterators: algorithms
\* Each algorithm is the loop of its source, run to completion on memory m;
\* it yields the value returned (ret), the memory it leaves (mem) and the
\* positions it dereferenced to read (reads) and to write (writes), in order.

T0 == 0            \* T{}: the value-initialised element

ReduceOps == {"plus", "minus", "max"}

\* std::plus, std::minus, std::multiplies, std::plus on std::string
\* (a string being the sequence of its characters), (a, b) -> a, and max
Apply(fn, a, b) == CASE fn = "plus" -> a + b
                     [] fn = "minus" -> a - b
                     [] fn = "times" -> a * b
                     [] fn = "concat" -> a \o b
                     [] fn = "left" -> a
                     [] OTHER -> IF a < b THEN b ELSE a

Fns == {"identity", "flip"}

\* slip: the function object is ignored, every element is flipped
Proj_flips(fn, x) == MaxVal - x

\* std::identity{} or x -> MaxVal - x
Proj(fn, x) == IF fn = "identity" THEN x ELSE MaxVal - x

\* std::unreachable_sentinel: first != last is true for every cursor
Unreachable == -3

\* slip: tests after advancing, so the first position is never examined
RECURSIVE find_skips_first(_, _, _, _, _)
find_skips_first(m, fst, lst, value, reads) ==
    IF fst = lst THEN [ret |-> fst, mem |-> m, reads |-> reads, writes |-> <<>>]
    ELSE IF fst + 1 # lst /\ fst + 1 < Len(m) /\ m[fst + 2] = value
    THEN [ret |-> fst + 1, mem |-> m, reads |-> Append(reads, fst + 1), writes |-> <<>>]
    ELSE find_skips_first(m, fst + 1, lst, value, Append(reads, fst + 1))

\* find(first, last, value); a read past the end of m does not return
RECURSIVE find(_, _, _, _, _)
find(m, fst, lst, value, reads) ==
    IF fst = lst THEN [ret |-> fst, mem |-> m, reads |-> reads, writes |-> <<>>]
    ELSE IF fst >= Len(m)
    THEN [ret |-> NoReturn, mem |-> m, reads |-> Append(reads, fst), writes |-> <<>>]
    ELSE IF m[fst + 1] = value
    THEN [ret |-> fst, mem |-> m, reads |-> Append(reads, fst), writes |-> <<>>]
    ELSE find(m, fst + 1, lst, value, Append(reads, fst))

\* slip: advances before the first test
RECURSIVE find_not_advances_first(_, _, _, _)
find_not_advances_first(m, fst, value, reads) ==
    IF fst + 1 >= Len(m)
    THEN [ret |-> NoReturn, mem |-> m, reads |-> Append(reads, fst + 1), writes |-> <<>>]
    ELSE IF m[fst + 2] # value
    THEN find_not_advances_first(m, fst + 1, value, Append(reads, fst + 1))
    ELSE [ret |-> fst + 1, mem |-> m, reads |-> Append(reads, fst + 1), writes |-> <<>>]

\* find_not(first, value): while (*first != value) ++first;
RECURSIVE find_not(_, _, _, _)
find_not(m, fst, value, reads) ==
    IF fst >= Len(m)
    THEN [ret |-> NoReturn, mem |-> m, reads |-> Append(reads, fst), writes |-> <<>>]
    ELSE IF m[fst + 1] # value
    THEN find_not(m, fst + 1, value, Append(reads, fst))
    ELSE [ret |-> fst, mem |-> m, reads |-> Append(reads, fst), writes |-> <<>>]

\* reduce(first, last, init, fn): init = fn(init, *first)
RECURSIVE reduce(_, _, _, _, _, _)
reduce(m, fst, lst, init, fn, reads) ==
    IF fst = lst THEN [ret |-> init, mem |-> m, reads |-> reads, writes |-> <<>>]
    ELSE reduce(m, fst + 1, lst, Apply(fn, init, m[fst + 1]), fn, Append(reads, fst))

\* the loop of reduce(first, last): init += *first
RECURSIVE reduce_sum(_, _, _, _, _)
reduce_sum(m, fst, lst, init, reads) ==
    IF fst = lst THEN [ret |-> init, mem |-> m, reads |-> reads, writes |-> <<>>]
    ELSE reduce_sum(m, fst + 1, lst, init + m[fst + 1], Append(reads, fst))

\* slip: the accumulator starts at the first element and adds it again
reduce2_seeded(m, fst, lst) ==
    IF fst = lst THEN reduce_sum(m, fst, lst, T0, <<>>)
    ELSE reduce_sum(m, fst, lst, m[fst + 1], <<>>)

\* reduce(first, last): T init{}; then the loop
reduce2(m, fst, lst) == reduce_sum(m, fst, lst, T0, <<>>)

\* slip: a do-while loop, the body runs once before the test
RECURSIVE copy_do_while(_, _, _, _, _, _)
copy_do_while(m, fst, lst, output, reads, writes) ==
    IF fst >= Len(m) \/ output >= Len(m) \/ fst + 1 = lst \/ fst = lst
    THEN [ret |-> output + 1,
          mem |-> IF fst < Len(m) /\ output < Len(m)
                  THEN [m EXCEPT ![output + 1] = m[fst + 1]] ELSE m,
          reads |-> Append(reads, fst), writes |-> Append(writes, output)]
    ELSE copy_do_while([m EXCEPT ![output + 1] = m[fst + 1]], fst + 1, lst,
                       output + 1, Append(reads, fst), Append(writes, output))

\* slip: ++output is missing, every element lands on the first output cell
RECURSIVE copy_stuck_output(_, _, _, _, _, _)
copy_stuck_output(m, fst, lst, output, reads, writes) ==
    IF fst = lst THEN [ret |-> output, mem |-> m, reads |-> reads, writes |-> writes]
    ELSE copy_stuck_output([m EXCEPT ![output + 1] = m[fst + 1]], fst + 1, lst,
                           output, Append(reads, fst), Append(writes, output))

\* copy(first, last, output): *output = *first; ++first; ++output
RECURSIVE copy(_, _, _, _, _, _)
copy(m, fst, lst, output, reads, writes) ==
    IF fst = lst THEN [ret |-> output, mem |-> m, reads |-> reads, writes |-> writes]
    ELSE copy([m EXCEPT ![output + 1] = m[fst + 1]], fst + 1, lst, output + 1,
              Append(reads, fst), Append(writes, output))

\* slip: ++output is missing
RECURSIVE transform_stuck_output(_, _, _, _, _, _, _)
transform_stuck_output(m, fst, lst, output, fn, reads, writes) ==
    IF fst = lst THEN [ret |-> output, mem |-> m, reads |-> reads, writes |-> writes]
    ELSE transform_stuck_output([m EXCEPT ![output + 1] = Proj(fn, m[fst + 1])],
                                fst + 1, lst, output, fn, Append(reads, fst),
                                Append(writes, output))

\* transform(first, last, output, fn): *output = fn(*first)
RECURSIVE transform(_, _, _, _, _, _, _)
transform(m, fst, lst, output, fn, reads, writes) ==
    IF fst = lst THEN [ret |-> output, mem |-> m, reads |-> reads, writes |-> writes]
    ELSE transform([m EXCEPT ![output + 1] = Proj(fn, m[fst + 1])], fst + 1, lst,
                   output + 1, fn, Append(reads, fst), Append(writes, output))

\* transform(first, last, proj): *first = proj(*first); returns nothing
RECURSIVE transform_in_place(_, _, _, _, _, _)
transform_in_place(m, fst, lst, proj, reads, writes) ==
    IF fst = lst THEN [ret |-> NoPos, mem |-> m, reads |-> reads, writes |-> writes]
    ELSE transform_in_place([m EXCEPT ![fst + 1] = Proj(proj, m[fst + 1])], fst + 1,
                            lst, proj, Append(reads, fst), Append(writes, fst))

\* --------------------------------------------------- 3.iterators: programs
\* random_container(size): iota 0..size-1, shuffled
random_container(size) ==
    {c \in [1..size -> 0..(size - 1)] : \A a, b \in 1..size : a # b => c[a] # c[b]}

ParOff ==
    /\ vec = <<>>
    /\ mpc = <<"off", 0>>
    /\ chunk_size = 0
    /\ limit = [k \in Workers |-> 0]
    /\ wpc = [k \in Workers |-> "idle"]
    /\ wfirst = [k \in Workers |-> NoPos]
    /\ readBy = [k \in Workers |-> {}]
    /\ spin = [k \in Workers |-> FALSE]
    /\ finished = <<>>
    /\ found = [k \in Workers |-> NoPos]
    /\ ret = NoPos

Init ==
    /\ ParOff
    /\ \/ mode = "lib" /\ mem \in SeqsUpTo(Values, MaxLen)
       \/ mode = "bench" /\ mem \in UNION {random_container(n) : n \in 0..MaxLen}
    /\ lambda = "none"
    /\ i = 0
    /\ call = NoCall

\* the valid ranges [f, l) of the memory
Ranges == {r \in (0..Len(mem)) \X (0..Len(mem)) : r[1] <= r[2]}

\* what lies behind the last element: anything
Beyond == [1..MaxOverrun -> Values]

Called(op, f, l, o, v, init, fn, r) ==
    [op |-> op, first |-> f, last |-> l, out |-> o, value |-> v, init |-> init,
     fn |-> fn, before |-> mem, ret |-> r.ret, reads |-> r.reads,
     writes |-> r.writes, times |-> 1]

\* a direct call of an algorithm on the memory as first laid out (the
\* algorithms keep no state between calls)
Lib ==
    /\ mode = "lib" /\ call.op = "none"
    /\ UNCHANGED <<mode, lambda, i>>
    /\ UNCHANGED parvars

CallFind ==
    /\ Lib
    /\ \E r \in Ranges, v \in Values :
          LET res == find(mem, r[1], r[2], v, <<>>)
          IN  /\ call' = Called("find", r[1], r[2], 0, v, 0, "none", res)
              /\ mem' = res.mem

\* find(first, unreachable_sentinel, value): past the end of the memory the
\* behaviour is undefined, it reads whatever lies there or does not return
CallFindUnreachable ==
    /\ Lib
    /\ \E f \in 0..Len(mem), v \in Values, g \in Beyond :
          LET res == find(mem \o g, f, Unreachable, v, <<>>)
          IN  /\ call' = Called("find_unreachable", f, Unreachable, 0, v, 0, "none", res)
              /\ mem' = mem

CallFindNot ==
    /\ Lib
    /\ \E f \in 0..Len(mem), v \in Values, g \in Beyond :
          LET res == find_not(mem \o g, f, v, <<>>)
          IN  /\ call' = Called("find_not", f, Unreachable, 0, v, 0, "none", res)
              /\ mem' = mem

CallReduce2 ==
    /\ Lib
    /\ \E r \in Ranges :
          LET res == reduce2(mem, r[1], r[2])
          IN  /\ call' = Called("reduce2", r[1], r[2], 0, 0, T0, "none", res)
              /\ mem' = res.mem

CallReduce ==
    /\ Lib
    /\ \E r \in Ranges, init \in Values, fn \in ReduceOps :
          LET res == reduce(mem, r[1], r[2], init, fn, <<>>)
          IN  /\ call' = Called("reduce", r[1], r[2], 0, 0, init, fn, res)
              /\ mem' = res.mem

\* the output cursor must be incrementable distance(first, last) times
Outputs(r) == {o \in 0..Len(mem) : o + (r[2] - r[1]) <= Len(mem)}

CallCopy ==
    /\ Lib
    /\ \E r \in Ranges :
          \E o \in Outputs(r) :
             LET res == copy(mem, r[1], r[2], o, <<>>, <<>>)
             IN  /\ call' = Called("copy", r[1], r[2], o, 0, 0, "none", res)
                 /\ mem' = res.mem

CallTransform ==
    /\ Lib
    /\ \E r \in Ranges, fn \in Fns :
          \E o \in Outputs(r) :
             LET res == transform(mem, r[1], r[2], o, fn, <<>>, <<>>)
             IN  /\ call' = Called("transform", r[1], r[2], o, 0, 0, fn, res)
                 /\ mem' = res.mem

CallTransformInPlace ==
    /\ Lib
    /\ \E r \in Ranges, fn \in Fns :
          LET res == transform_in_place(mem, r[1], r[2], fn, <<>>, <<>>)
          IN  /\ call' = Called("transform_in_place", r[1], r[2], 0, 0, 0, fn, res)
              /\ mem' = res.mem

\* the same transform(first, last, proj) applied once more to what the
\* applications before it left; call.before stays the memory before the first
CallTransformInPlaceAgain ==
    /\ mode = "lib" /\ call.op = "transform_in_place"
    /\ call.times < MaxTimes
    /\ LET res == transform_in_place(mem, call.first, call.last, call.fn, <<>>, <<>>)
       IN  /\ call' = [call EXCEPT !.times = @ + 1, !.reads = res.reads,
                                   !.writes = res.writes]
           /\ mem' = res.mem
    /\ UNCHANGED <<mode, lambda, i>>
    /\ UNCHANGED parvars

\* test_find_for_container: timer::repeat runs a closure, which loops
\* for (auto i = 0; i < size; ++i) over the container of size elements
size == Len(mem)

\* slip: the loop runs to i == size
LoopRunsInclusive == i <= size

LoopRuns == i < size

StartClosure ==
    /\ mode = "bench" /\ lambda = "none"
    /\ lambda' \in {"our_find", "our_find_unreachable"}
    /\ i' = 0
    /\ UNCHANGED <<mem, mode, call>>
    /\ UNCHANGED parvars

\* do_not_optimize(find(container, i))
OurFind ==
    /\ mode = "bench" /\ lambda = "our_find"
    /\ LoopRuns
    /\ call' = Called("find", 0, size, 0, i, 0, "none", find(mem, 0, size, i, <<>>))
    /\ i' = i + 1
    /\ UNCHANGED <<mem, mode, lambda>>
    /\ UNCHANGED parvars

\* do_not_optimize(find(container.begin(), std::unreachable_sentinel, i))
OurFindUnreachable ==
    /\ mode = "bench" /\ lambda = "our_find_unreachable"
    /\ LoopRuns
    /\ \E g \in Beyond :
          call' = Called("find_unreachable", 0, Unreachable, 0, i, 0, "none",
                         find(mem \o g, 0, Unreachable, i, <<>>))
    /\ i' = i + 1
    /\ UNCHANGED <<mem, mode, lambda>>
    /\ UNCHANGED parvars

EndClosure ==
    /\ mode = "bench" /\ lambda # "none"
    /\ ~LoopRuns
    /\ lambda' = "none"
    /\ UNCHANGED <<mem, mode, i, call>>
    /\ UNCHANGED parvars

Next ==
    \/ CallFind
    \/ CallFindUnreachable
    \/ CallFindNot
    \/ CallReduce2
    \/ CallReduce
    \/ CallCopy
    \/ CallTransform
    \/ CallTransformInPlace
    \/ CallTransformInPlaceAgain
    \/ StartClosure
    \/ OurFind
    \/ OurFindUnreachable
    \/ EndClosure

Spec == Init /\ [][Next]_vars

\* ---------------------------------------------------- 3.iterators: claims
\* the positions a, a+1, ..., b-1 in order
Positions(a, b) == [k \in 1..(b - a) |-> a + k - 1]

\* positions of [f, l) of memory m that hold v
Occurrences(m, f, l, v) == {p \in f..(l - 1) : m[p + 1] = v}

Least(S) == CHOOSE p \in S : \A q \in S : p <= q

\* the left fold ((init fn s[1]) fn s[2]) ... fn s[n], by induction on n
RECURSIVE FoldLeft(_, _, _)
FoldLeft(fn, init, s) ==
    IF s = <<>> THEN init
    ELSE Apply(fn, FoldLeft(fn, init, SubSeq(s, 1, Len(s) - 1)), s[Len(s)])

Elements(m, f, l) == [k \in 1..(l - f) |-> m[f + k]]

\* C6: find returns the end position iff the value does not occur in the
\* range, else the position of its first occurrence, as a linear scan does,
\* and reads no position after the one it returns.
C6_FindFirstOccurrence ==
    (call.op = "find") =>
        LET occ == Occurrences(call.before, call.first, call.last, call.value)
        IN  /\ (call.ret = call.last) <=> (occ = {})
            /\ occ # {} => call.ret = Least(occ)
            /\ call.reads = Positions(call.first,
                                      IF occ = {} THEN call.last ELSE call.ret + 1)
            /\ \A k \in 1..Len(call.reads) : call.reads[k] <= call.ret

\* the value occurs twice in the range and the first one, not at the front,
\* is returned
C6_Witness ==
    /\ call.op = "find"
    /\ call.first < call.ret /\ call.ret + 1 < call.last
    /\ call.before[call.last] = call.value

\* C7: when the value occurs, find with the unreachable sentinel and find_not
\* return its first occurrence, as find with the real end does, and read
\* nothing past it; every search of the benchmark is for a value that is
\* present and stops inside the container.
C7_NoEndCheckStopsAtValue ==
    (call.op \in {"find_unreachable", "find_not"}) =>
        LET n == Len(call.before)
            occ == Occurrences(call.before, call.first, n, call.value)
        IN  /\ occ # {} =>
                 /\ call.ret = Least(occ)
                 /\ call.ret = find(call.before, call.first, n, call.value, <<>>).ret
                 /\ call.reads = Positions(call.first, call.ret + 1)
            /\ mode = "bench" =>
                 /\ occ # {}
                 /\ call.ret < n
                 /\ \A k \in 1..Len(call.reads) : call.reads[k] < n

\* the benchmark found the value held by the last element without an end check
C7_Witness ==
    /\ mode = "bench"
    /\ call.op = "find_unreachable"
    /\ size >= 3
    /\ call.ret = size - 1

\* C8: reduce(first, last) returns what reduce(first, last, T{}, plus)
\* returns, and both are the left-to-right fold over every position in order.
C8_ReduceDefaultIsPlusFromZero ==
    /\ (call.op = "reduce2") =>
          LET r == reduce(call.before, call.first, call.last, T0, "plus", <<>>)
          IN  /\ call.ret = r.ret
              /\ call.reads = r.reads
    /\ (call.op \in {"reduce", "reduce2"}) =>
          /\ call.ret = FoldLeft(IF call.op = "reduce" THEN call.fn ELSE "plus",
                                 call.init,
                                 Elements(call.before, call.first, call.last))
          /\ call.reads = Positions(call.first, call.last)

\* a sum of three elements that is not zero
C8_Witness ==
    /\ call.op = "reduce2"
    /\ call.last - call.first >= 3
    /\ call.ret >= 2

\* C9: on an empty range nothing is read or written: reduce returns init,
\* find returns the end position, copy and transform return the output cursor.
C9_EmptyRangeIsIdentity ==
    (call.op \in {"find", "reduce", "reduce2", "copy", "transform",
                  "transform_in_place"} /\ call.first = call.last) =>
        /\ call.reads = <<>>
        /\ call.writes = <<>>
        /\ mem = call.before
        /\ call.op \in {"reduce", "reduce2"} => call.ret = call.init
        /\ call.op = "reduce2" => call.ret = T0
        /\ call.op = "find" => call.ret = call.last
        /\ call.op \in {"copy", "transform"} => call.ret = call.out

\* copy of an empty range in the middle of the memory
C9_Witness ==
    /\ call.op = "copy"
    /\ call.first = call.last
    /\ call.first = 1
    /\ call.out = 2
    /\ Len(mem) >= 3

\* the output range [out, out + n) is the source range itself or shares no
\* position with it
NoPartialOverlap(c) ==
    \/ c.out = c.first
    \/ c.out + (c.last - c.first) <= c.first
    \/ c.last <= c.out

\* what copy does for every output cursor: it reads the n source positions
\* and writes the n output positions in order, once each, changes nothing
\* outside [out, out + n) and returns out + n
CopyTrace(c) ==
    LET n == c.last - c.first
    IN  /\ c.reads = Positions(c.first, c.last)
        /\ c.writes = Positions(c.out, c.out + n)
        /\ c.ret = c.out + n
        /\ Len(mem) = Len(c.before)
        /\ \A p \in 0..(Len(mem) - 1) :
              p \notin c.out..(c.out + n - 1) => mem[p + 1] = c.before[p + 1]

\* output position i holds source element i, and the source is unchanged
CopyResult(c) ==
    /\ \A k \in 0..(c.last - c.first - 1) :
          mem[c.out + k + 1] = c.before[c.first + k + 1]
    /\ \A p \in c.first..(c.last - 1) : mem[p + 1] = c.before[p + 1]

\* C10 as stated: for every output cursor, copy writes source element i to
\* output position i, in order and once each, leaves the source and every
\* position outside [out, out + n) unchanged and returns out + n.
C10_CopyAnyOutput ==
    (call.op = "copy") => (CopyTrace(call) /\ CopyResult(call))

\* C10 amended: the same, for an output range that does not partially
\* overlap the source range (it is apart from it, or out = first).
C10_CopyWritesEachOnce ==
    (call.op = "copy") =>
        /\ CopyTrace(call)
        /\ NoPartialOverlap(call) => CopyResult(call)

\* two different elements were copied to another place
C10_Witness ==
    /\ call.op = "copy"
    /\ call.last - call.first >= 2
    /\ NoPartialOverlap(call) /\ call.out # call.first
    /\ call.before[call.first + 1] # call.before[call.first + 2]
    /\ mem # call.before

\* C11: transform(first, last, proj) with the identity leaves every element
\* as it was, and so does applying it again any number of times; each
\* application reads and writes every position of the range once, in order.
C11_IdentityInPlaceIsNoOp ==
    (call.op = "transform_in_place" /\ call.fn = "identity") =>
        /\ mem = call.before
        /\ call.reads = Positions(call.first, call.last)
        /\ call.writes = Positions(call.first, call.last)

\* the identity applied MaxTimes times to a range of two different elements
C11_Witness ==
    /\ call.op = "transform_in_place" /\ call.fn = "identity"
    /\ call.times = MaxTimes
    /\ call.last - call.first >= 2
    /\ mem[call.first + 1] # mem[call.first + 2]

\* C12: transform(first, last, out, identity) does what copy(first, last, out)
\* does: the same reads, the same writes of the same values to the same
\* positions, and the same returned cursor out + n.
C12_IdentityTransformIsCopy ==
    (call.op = "transform" /\ call.fn = "identity") =>
        LET c == copy(call.before, call.first, call.last, call.out, <<>>, <<>>)
        IN  /\ mem = c.mem
            /\ call.ret = c.ret
            /\ call.ret = call.out + (call.last - call.first)
            /\ call.reads = c.reads
            /\ call.writes = c.writes

\* test_copy's shape: the first half of the memory copied onto the second
C12_Witness ==
    /\ call.op = "transform" /\ call.fn = "identity"
    /\ call.first = 0 /\ call.last = 2 /\ call.out = 2
    /\ Len(mem) = 4
    /\ mem # call.before
    /\ call.before[1] # call.before[2]

\* ------------------------------------------- 3.iterators: two-range reduce
\* The two ranges lie one after the other in the memory; a call yields the
\* value returned (ret), the positions read in the first and in the second
\* range (reads, reads2), the number of blocks the blocked loop folded
\* (blocks) and the number of elements left when it exited (rest).

FastBlock == 4     \* fast_reduce: while (distance > 4), first1 += 4
FasterBlock == 8   \* faster_reduce: while (distance > 8), first1 += 8

\* slip: first2 is not advanced, every element meets the same partner
RECURSIVE reduce6_keeps_first2(_, _, _, _, _, _, _, _, _)
reduce6_keeps_first2(m, f1, l1, f2, init, binaryOp, reduceOp, reads, reads2) ==
    IF f1 = l1
    THEN [ret |-> init, mem |-> m, reads |-> reads, reads2 |-> reads2,
          rest |-> 0, blocks |-> 0]
    ELSE reduce6_keeps_first2(m, f1 + 1, l1, f2,
                 Apply(reduceOp, init, Apply(binaryOp, m[f1 + 1], m[f2 + 1])),
                 binaryOp, reduceOp, Append(reads, f1), Append(reads2, f2))

\* reduce(first1, last1, first2, init, binaryOp, reduceOp):
\* init = reduceOp(init, binaryOp(*first1, *first2)); ++first1; ++first2
RECURSIVE reduce6(_, _, _, _, _, _, _, _, _)
reduce6(m, f1, l1, f2, init, binaryOp, reduceOp, reads, reads2) ==
    IF f1 = l1
    THEN [ret |-> init, mem |-> m, reads |-> reads, reads2 |-> reads2,
          rest |-> 0, blocks |-> 0]
    ELSE reduce6(m, f1 + 1, l1, f2 + 1,
                 Apply(reduceOp, init, Apply(binaryOp, m[f1 + 1], m[f2 + 1])),
                 binaryOp, reduceOp, Append(reads, f1), Append(reads2, f2))

\* inner_product(first1, last1, first2)
inner_product(m, f1, l1, f2) ==
    reduce6(m, f1, l1, f2, T0, "times", "plus", <<>>, <<>>)

\* slip: the two halves of a block are folded in the wrong order
RECURSIVE fast_reduce_swaps_halves(_, _, _, _, _, _, _, _, _, _)
fast_reduce_swaps_halves(m, f1, l1, f2, init, binaryOp, reduceOp, reads, reads2, blocks) ==
    IF l1 - f1 > FastBlock
    THEN LET b(k) == Apply(binaryOp, m[f1 + k + 1], m[f2 + k + 1])
             aux1 == Apply(reduceOp, b(0), b(1))
             aux2 == Apply(reduceOp, b(2), b(3))
             aux3 == Apply(reduceOp, aux2, aux1)
         IN  fast_reduce_swaps_halves(m, f1 + FastBlock, l1, f2 + FastBlock,
                         Apply(reduceOp, init, aux3), binaryOp, reduceOp,
                         reads \o Positions(f1, f1 + FastBlock),
                         reads2 \o Positions(f2, f2 + FastBlock), blocks + 1)
    ELSE [reduce6(m, f1, l1, f2, init, binaryOp, reduceOp, reads, reads2)
            EXCEPT !.rest = l1 - f1, !.blocks = blocks]

\* slip: the loop of fast_reduce tests against faster_reduce's block size
RECURSIVE fast_reduce_exits_early(_, _, _, _, _, _, _, _, _, _)
fast_reduce_exits_early(m, f1, l1, f2, init, binaryOp, reduceOp, reads, reads2, blocks) ==
    IF l1 - f1 > FasterBlock
    THEN LET b(k) == Apply(binaryOp, m[f1 + k + 1], m[f2 + k + 1])
             aux1 == Apply(reduceOp, b(0), b(1))
             aux2 == Apply(reduceOp, b(2), b(3))
             aux3 == Apply(reduceOp, aux1, aux2)
         IN  fast_reduce_exits_early(m, f1 + FastBlock, l1, f2 + FastBlock,
                         Apply(reduceOp, init, aux3), binaryOp, reduceOp,
                         reads \o Positions(f1, f1 + FastBlock),
                         reads2 \o Positions(f2, f2 + FastBlock), blocks + 1)
    ELSE [reduce6(m, f1, l1, f2, init, binaryOp, reduceOp, reads, reads2)
            EXCEPT !.rest = l1 - f1, !.blocks = blocks]

\* fast_reduce: while more than 4 elements are left, fold the next 4 as
\* (b0 b1)(b2 b3) into init; then reduce what is left
RECURSIVE fast_reduce(_, _, _, _, _, _, _, _, _, _)
fast_reduce(m, f1, l1, f2, init, binaryOp, reduceOp, reads, reads2, blocks) ==
    IF l1 - f1 > FastBlock
    THEN LET b(k) == Apply(binaryOp, m[f1 + k + 1], m[f2 + k + 1])
             aux1 == Apply(reduceOp, b(0), b(1))
             aux2 == Apply(reduceOp, b(2), b(3))
             aux3 == Apply(reduceOp, aux1, aux2)
         IN  fast_reduce(m, f1 + FastBlock, l1, f2 + FastBlock,
                         Apply(reduceOp, init, aux3), binaryOp, reduceOp,
                         reads \o Positions(f1, f1 + FastBlock),
                         reads2 \o Positions(f2, f2 + FastBlock), blocks + 1)
    ELSE [reduce6(m, f1, l1, f2, init, binaryOp, reduceOp, reads, reads2)
            EXCEPT !.rest = l1 - f1, !.blocks = blocks]

\* faster_reduce: the same with blocks of 8, folded as
\* ((b0 b1)(b2 b3))((b4 b5)(b6 b7))
RECURSIVE faster_reduce(_, _, _, _, _, _, _, _, _, _)
faster_reduce(m, f1, l1, f2, init, binaryOp, reduceOp, reads, reads2, blocks) ==
    IF l1 - f1 > FasterBlock
    THEN LET b(k) == Apply(binaryOp, m[f1 + k + 1], m[f2 + k + 1])
             aux1 == Apply(reduceOp, b(0), b(1))
             aux2 == Apply(reduceOp, b(2), b(3))
             aux3 == Apply(reduceOp, b(4), b(5))
             aux4 == Apply(reduceOp, b(6), b(7))
             aux5 == Apply(reduceOp, aux1, aux2)
             aux6 == Apply(reduceOp, aux3, aux4)
             aux7 == Apply(reduceOp, aux5, aux6)
         IN  faster_reduce(m, f1 + FasterBlock, l1, f2 + FasterBlock,
                           Apply(reduceOp, init, aux7), binaryOp, reduceOp,
                           reads \o Positions(f1, f1 + FasterBlock),
                           reads2 \o Positions(f2, f2 + FasterBlock), blocks + 1)
    ELSE [reduce6(m, f1, l1, f2, init, binaryOp, reduceOp, reads, reads2)
            EXCEPT !.rest = l1 - f1, !.blocks = blocks]

fast_inner_product(m, f1, l1, f2) ==
    fast_reduce(m, f1, l1, f2, T0, "times", "plus", <<>>, <<>>, 0)

faster_inner_product(m, f1, l1, f2) ==
    faster_reduce(m, f1, l1, f2, T0, "times", "plus", <<>>, <<>>, 0)

\* ---- the callers: T = int and T = std::string
\* container1 holds any elements, container2 (as long) holds 1, 2, ..., n
IntContainers(n) ==
    {c1 \o [k \in 1..n |-> k] : c1 \in [1..n -> 1..(MaxVal + 1)]}

\* strings of one character, all different: the result spells out which
\* elements were folded and in which order
StringContainers(n) == {[k \in 1..n |-> <<k>>] \o [k \in 1..n |-> <<-k>>]}

DotInit ==
    /\ ParOff
    /\ \/ mode = "int" /\ mem \in UNION {IntContainers(n) : n \in 0..MaxDotInt}
       \/ mode = "string" /\ mem \in UNION {StringContainers(n) : n \in 0..MaxDot}
    /\ lambda = "none"
    /\ i = 0
    /\ call = NoCall

\* what the caller may pass as init, binaryOp and reduceOp for its T
Seeds == IF mode = "int" THEN {T0, 1} ELSE {<<>>, <<0>>}
BinaryOps == IF mode = "int" THEN {"times", "minus"} ELSE {"concat", "left"}
DotReduceOps == IF mode = "int" THEN ReduceOps ELSE {"concat"}

\* the ranges [f, l) of container1, each with the cursor of container2 that
\* stands as far from its begin()
DotRanges ==
    LET n == Len(mem) \div 2
    IN  {<<r[1], r[2], n + r[1]>> : r \in {q \in (0..n) \X (0..n) : q[1] <= q[2]}}

DotCalled(op, r, init, binaryOp, reduceOp, res) ==
    [op |-> op, first |-> r[1], last |-> r[2], first2 |-> r[3], init |-> init,
     binaryOp |-> binaryOp, reduceOp |-> reduceOp, before |-> mem,
     ret |-> res.ret, reads |-> res.reads, reads2 |-> res.reads2,
     rest |-> res.rest, blocks |-> res.blocks]

Dot ==
    /\ mode \in {"int", "string"} /\ call.op = "none"
    /\ UNCHANGED <<mem, mode, lambda, i>>
    /\ UNCHANGED parvars

CallReduce6 ==
    /\ Dot
    /\ \E r \in DotRanges, init \in Seeds, bop \in BinaryOps, rop \in DotReduceOps :
          call' = DotCalled("reduce6", r, init, bop, rop,
                            reduce6(mem, r[1], r[2], r[3], init, bop, rop, <<>>, <<>>))

CallFastReduce ==
    /\ Dot
    /\ \E r \in DotRanges, init \in Seeds, bop \in BinaryOps, rop \in DotReduceOps :
          call' = DotCalled("fast_reduce", r, init, bop, rop,
                            fast_reduce(mem, r[1], r[2], r[3], init, bop, rop, <<>>, <<>>, 0))

CallFasterReduce ==
    /\ Dot
    /\ \E r \in DotRanges, init \in Seeds, bop \in BinaryOps, rop \in DotReduceOps :
          call' = DotCalled("faster_reduce", r, init, bop, rop,
                            faster_reduce(mem, r[1], r[2], r[3], init, bop, rop, <<>>, <<>>, 0))

\* the inner products, for T = int
CallInnerProduct ==
    /\ Dot /\ mode = "int"
    /\ \E r \in DotRanges :
          call' = DotCalled("inner_product", r, T0, "times", "plus",
                            inner_product(mem, r[1], r[2], r[3]))

CallFastInnerProduct ==
    /\ Dot /\ mode = "int"
    /\ \E r \in DotRanges :
          call' = DotCalled("fast_inner_product", r, T0, "times", "plus",
                            fast_inner_product(mem, r[1], r[2], r[3]))

CallFasterInnerProduct ==
    /\ Dot /\ mode = "int"
    /\ \E r \in DotRanges :
          call' = DotCalled("faster_inner_product", r, T0, "times", "plus",
                            faster_inner_product(mem, r[1], r[2], r[3]))

DotNext ==
    \/ CallReduce6
    \/ CallFastReduce
    \/ CallFasterReduce
    \/ CallInnerProduct
    \/ CallFastInnerProduct
    \/ CallFasterInnerProduct

DotSpec == DotInit /\ [][DotNext]_vars

\* ------------------------------------- 3.iterators: two-range reduce, claims
\* binaryOp(a_k, b_k) for the elements of the two ranges of call c, in order
Pairs(c) ==
    [k \in 1..(c.last - c.first) |->
        Apply(c.binaryOp, c.before[c.first + k], c.before[c.first2 + k])]

\* fn is associative on the values of its type
Associative(fn) ==
    LET D == IF fn = "concat" THEN {<<>>, <<0>>, <<1>>} ELSE 0..2
    IN  \A a, b, c \in D :
           Apply(fn, Apply(fn, a, b), c) = Apply(fn, a, Apply(fn, b, c))

Commutative(fn) ==
    LET D == IF fn = "concat" THEN {<<>>, <<0>>, <<1>>} ELSE 0..2
    IN  \A a, b \in D : Apply(fn, a, b) = Apply(fn, b, a)

\* C13: the two-range reduce returns the left fold of reduceOp, seeded with
\* init, over binaryOp(a_k, b_k) for k = 0..n-1 in order; it reads exactly
\* the positions 0..n-1 of each range and writes nothing; inner_product is
\* that fold with multiply, add and the seed T{}.
C13_ReduceIsLeftFoldOfPairs ==
    /\ (call.op = "reduce6") =>
          /\ call.ret = FoldLeft(call.reduceOp, call.init, Pairs(call))
          /\ call.reads = Positions(call.first, call.last)
          /\ call.reads2 = Positions(call.first2, call.first2 + (call.last - call.first))
          /\ mem = call.before
    /\ (call.op = "inner_product") =>
          /\ call.binaryOp = "times" /\ call.reduceOp = "plus" /\ call.init = T0
          /\ call.ret = FoldLeft("plus", T0, Pairs(call))
          /\ call.reads = Positions(call.first, call.last)
          /\ call.reads2 = Positions(call.first2, call.first2 + (call.last - call.first))

\* a fold with minus over three pairs, not starting at begin()
C13_Witness ==
    /\ call.op = "reduce6"
    /\ call.reduceOp = "minus" /\ call.binaryOp = "times"
    /\ call.first = 1 /\ call.last - call.first >= 3
    /\ call.ret # call.init

\* what the sequential two-range reduce returns for the arguments of call c
Sequential(c) ==
    reduce6(c.before, c.first, c.last, c.first2, c.init, c.binaryOp,
            c.reduceOp, <<>>, <<>>).ret

\* C14: for an associative reduceOp, commutative or not, fast_reduce and
\* faster_reduce (and the inner products built on them) return what the
\* sequential two-range reduce returns, for every length.
C14_BlockedEqualsSequential ==
    (/\ call.op \in {"fast_reduce", "faster_reduce", "fast_inner_product",
                     "faster_inner_product"}
     /\ Associative(call.reduceOp)) =>
        call.ret = Sequential(call)

\* faster_reduce folded two blocks and a rest with a reduceOp that is
\* associative and not commutative
C14_Witness ==
    /\ call.op = "faster_reduce"
    /\ Associative(call.reduceOp) /\ ~Commutative(call.reduceOp)
    /\ call.blocks = 2 /\ call.rest = 1
    /\ call.binaryOp = "concat"
    /\ Len(call.ret) = 2 * (call.last - call.first) + Len(call.init)

\* the block size of the blocked reduce named op
Block(op) == IF op \in {"fast_reduce", "fast_inner_product"} THEN FastBlock
             ELSE FasterBlock

Blocked == {"fast_reduce", "faster_reduce", "fast_inner_product",
            "faster_inner_product"}

\* C15 as stated: when the blocked loop exits, fewer elements than one block
\* are left for the sequential fold.
C15_RestBelowBlock ==
    (call.op \in Blocked) => call.rest < Block(call.op)

\* C15 amended: at most one block is left, and at least one element of a
\* non-empty range; a whole block is left when the length is a positive
\* multiple of the block size.
C15_RestAtMostBlock ==
    (call.op \in Blocked) =>
        LET n == call.last - call.first
            B == Block(call.op)
        IN  /\ call.rest <= B
            /\ n > 0 => call.rest >= 1
            /\ n = call.blocks * B + call.rest
            /\ (n > 0 /\ n % B = 0) => call.rest = B

\* fast_reduce folded one block and left a whole block to the sequential fold
C15_Witness ==
    /\ call.op = "fast_reduce"
    /\ call.blocks = 1
    /\ call.rest = FastBlock

\* ------------------------------------------------- minmax: the algorithms
\* A call yields the cursor(s) returned (ret), the positions dereferenced
\* (reads, in order) and the number of calls of the comparator (comps).

\* the comparators: std::less, std::greater, and less on the halves (a
\* strict weak ordering under which 2k and 2k + 1 are equivalent)
Compares == {"less", "greater", "less_half"}

Comp(comp, a, b) == CASE comp = "less" -> a < b
                      [] comp = "greater" -> a > b
                      [] OTHER -> (a \div 2) < (b \div 2)

\* min(a, b, comp) for the elements at positions a and b of m; the value
\* returned is a reference, here the position of the argument returned
min(m, a, b, comp) ==
    [ret |-> IF Comp(comp, m[b + 1], m[a + 1]) THEN b ELSE a,
     reads |-> <<b, a>>, comps |-> 1]

\* slip: comp(a, b) as in std::max, which returns a on equivalent arguments
max_as_std(m, a, b, comp) ==
    [ret |-> IF Comp(comp, m[a + 1], m[b + 1]) THEN b ELSE a,
     reads |-> <<a, b>>, comps |-> 1]

\* max(a, b, comp)
max(m, a, b, comp) ==
    [ret |-> IF Comp(comp, m[b + 1], m[a + 1]) THEN a ELSE b,
     reads |-> <<b, a>>, comps |-> 1]

\* while (++first != last) if (comp(*first, *minimum)) minimum = first;
\* cur is first after the ++
RECURSIVE min_element_while(_, _, _, _, _, _, _)
min_element_while(m, cur, lst, minimum, comp, reads, comps) ==
    IF cur = lst THEN [ret |-> minimum, reads |-> reads, comps |-> comps]
    ELSE min_element_while(m, cur + 1, lst,
                           IF Comp(comp, m[cur + 1], m[minimum + 1]) THEN cur
                           ELSE minimum,
                           comp, reads \o <<cur, minimum>>, comps + 1)

min_element(m, fst, lst, comp) ==
    IF fst = lst THEN [ret |-> lst, reads |-> <<>>, comps |-> 0]
    ELSE min_element_while(m, fst + 1, lst, fst, comp, <<>>, 0)

\* slip: comp(*maximum, *first), which keeps the first of equal maxima
RECURSIVE max_element_keeps_first_while(_, _, _, _, _, _, _)
max_element_keeps_first_while(m, cur, lst, maximum, comp, reads, comps) ==
    IF cur = lst THEN [ret |-> maximum, reads |-> reads, comps |-> comps]
    ELSE max_element_keeps_first_while(m, cur + 1, lst,
                           IF Comp(comp, m[maximum + 1], m[cur + 1]) THEN cur
                           ELSE maximum,
                           comp, reads \o <<cur, maximum>>, comps + 1)

max_element_keeps_first(m, fst, lst, comp) ==
    IF fst = lst THEN [ret |-> lst, reads |-> <<>>, comps |-> 0]
    ELSE max_element_keeps_first_while(m, fst + 1, lst, fst, comp, <<>>, 0)

\* while (++first != last) if (not comp(*first, *maximum)) maximum = first;
RECURSIVE max_element_while(_, _, _, _, _, _, _)
max_element_while(m, cur, lst, maximum, comp, reads, comps) ==
    IF cur = lst THEN [ret |-> maximum, reads |-> reads, comps |-> comps]
    ELSE max_element_while(m, cur + 1, lst,
                           IF ~Comp(comp, m[cur + 1], m[maximum + 1]) THEN cur
                           ELSE maximum,
                           comp, reads \o <<cur, maximum>>, comps + 1)

max_element(m, fst, lst, comp) ==
    IF fst = lst THEN [ret |-> lst, reads |-> <<>>, comps |-> 0]
    ELSE max_element_while(m, fst + 1, lst, fst, comp, <<>>, 0)

\* {min_element(first, last, comp), max_element(first, last, comp)}
naive_minmax_element(m, fst, lst, comp) ==
    LET mn == min_element(m, fst, lst, comp)
        mx == max_element(m, fst, lst, comp)
    IN  [ret |-> <<mn.ret, mx.ret>>, reads |-> mn.reads \o mx.reads,
         comps |-> mn.comps + mx.comps]

\* slip: every element is compared with both running extremes
minmax_element_one_by_one(m, fst, lst, comp) ==
    naive_minmax_element(m, fst, lst, comp) @@ [steps |-> <<>>]

\* the pair loop of minmax_element and what follows it:
\* while (first != last and std::next(first) != last) { ... }
\* if (first != last) { ... }   return {minimum, maximum};
\* steps lists <<minimum, maximum>> as they stand before the loop and after
\* each of its iterations
RECURSIVE minmax_element_while(_, _, _, _, _, _, _, _, _)
minmax_element_while(m, cur, lst, minimum, maximum, comp, reads, comps, steps) ==
    IF cur # lst /\ cur + 1 # lst
    THEN LET swap == Comp(comp, m[cur + 2], m[cur + 1])
             potential_min == IF swap THEN cur + 1 ELSE cur
             potential_max == IF swap THEN cur ELSE cur + 1
             new_min == IF Comp(comp, m[potential_min + 1], m[minimum + 1])
                        THEN potential_min ELSE minimum
             new_max == IF ~Comp(comp, m[potential_max + 1], m[maximum + 1])
                        THEN potential_max ELSE maximum
         IN  minmax_element_while(m, cur + 2, lst, new_min, new_max, comp,
                 reads \o <<cur + 1, cur, potential_min, minimum,
                            potential_max, maximum>>,
                 comps + 3, Append(steps, <<new_min, new_max>>))
    ELSE IF cur # lst
    THEN [ret |-> <<IF Comp(comp, m[cur + 1], m[minimum + 1]) THEN cur ELSE minimum,
                    IF ~Comp(comp, m[cur + 1], m[maximum + 1]) THEN cur ELSE maximum>>,
          reads |-> reads \o <<cur, maximum, cur, minimum>>,
          comps |-> comps + 2, steps |-> steps]
    ELSE [ret |-> <<minimum, maximum>>, reads |-> reads, comps |-> comps,
          steps |-> steps]

\* slip: the one-element case returns {minimum, last}
minmax_element_single_to_last(m, fst, lst, comp) ==
    IF fst = lst
    THEN [ret |-> <<lst, lst>>, reads |-> <<>>, comps |-> 0, steps |-> <<>>]
    ELSE IF fst + 1 = lst
    THEN [ret |-> <<fst, lst>>, reads |-> <<>>, comps |-> 0, steps |-> <<>>]
    ELSE LET swap == Comp(comp, m[fst + 1], m[fst + 2])
             minimum == IF swap THEN fst + 1 ELSE fst
             maximum == IF swap THEN fst ELSE fst + 1
         IN  minmax_element_while(m, fst + 2, lst, minimum, maximum, comp,
                                  <<fst, fst + 1>>, 1, <<<<minimum, maximum>>>>)

\* minmax_element(first, last, comp): the base cases, then
\* minimum = first, maximum = the next, swapped if comp(*minimum, *maximum)
minmax_element(m, fst, lst, comp) ==
    IF fst = lst
    THEN [ret |-> <<lst, lst>>, reads |-> <<>>, comps |-> 0, steps |-> <<>>]
    ELSE IF fst + 1 = lst
    THEN [ret |-> <<fst, fst>>, reads |-> <<>>, comps |-> 0, steps |-> <<>>]
    ELSE LET swap == Comp(comp, m[fst + 1], m[fst + 2])
             minimum == IF swap THEN fst + 1 ELSE fst
             maximum == IF swap THEN fst ELSE fst + 1
         IN  minmax_element_while(m, fst + 2, lst, minimum, maximum, comp,
                                  <<fst, fst + 1>>, 1, <<<<minimum, maximum>>>>)

\* ---- the callers: any range of any container, any of the comparators
MinMaxInit ==
    /\ ParOff
    /\ mode = "minmax"
    /\ mem \in SeqsUpTo(0..(MaxVal + 1), MaxMM)
                  \cup {<<2, 5, 5, 1, 5>>, <<3, 1, 4, 1, 5, 9, 2, 6>>}
    /\ lambda = "none"
    /\ i = 0
    /\ call = NoCall

MinMaxCalled(op, r, comp, res) ==
    [op |-> op, first |-> r[1], last |-> r[2], comp |-> comp, before |-> mem,
     ret |-> res.ret, reads |-> res.reads, comps |-> res.comps]

MinMax ==
    /\ mode = "minmax" /\ call.op = "none"
    /\ UNCHANGED <<mem, mode, lambda, i>>
    /\ UNCHANGED parvars

CallMinElement ==
    /\ MinMax
    /\ \E r \in Ranges, comp \in Compares :
          call' = MinMaxCalled("min_element", r, comp,
                               min_element(mem, r[1], r[2], comp))

CallMaxElement ==
    /\ MinMax
    /\ \E r \in Ranges, comp \in Compares :
          call' = MinMaxCalled("max_element", r, comp,
                               max_element(mem, r[1], r[2], comp))

CallNaiveMinmaxElement ==
    /\ MinMax
    /\ \E r \in Ranges, comp \in Compares :
          call' = MinMaxCalled("naive_minmax_element", r, comp,
                               naive_minmax_element(mem, r[1], r[2], comp))

CallMinmaxElement ==
    /\ MinMax
    /\ \E r \in Ranges, comp \in Compares :
          LET res == minmax_element(mem, r[1], r[2], comp)
          IN  call' = MinMaxCalled("minmax_element", r, comp, res)
                          @@ [steps |-> res.steps]

\* min and max of two elements of the container, a and b
CallMin ==
    /\ MinMax
    /\ \E a, b \in 0..(Len(mem) - 1), comp \in Compares :
          call' = MinMaxCalled("min", <<a, b>>, comp, min(mem, a, b, comp))

CallMax ==
    /\ MinMax
    /\ \E a, b \in 0..(Len(mem) - 1), comp \in Compares :
          call' = MinMaxCalled("max", <<a, b>>, comp, max(mem, a, b, comp))

MinMaxNext ==
    \/ CallMin
    \/ CallMax
    \/ CallMinElement
    \/ CallMaxElement
    \/ CallNaiveMinmaxElement
    \/ CallMinmaxElement

MinMaxSpec == MinMaxInit /\ [][MinMaxNext]_vars

\* ----------------------------------------------------------- minmax: claims
Greatest(S) == CHOOSE p \in S : \A q \in S : q <= p

\* positions of [f, l) of m that no element of the range comes before
Minimal(m, f, l, comp) ==
    {p \in f..(l - 1) : \A q \in f..(l - 1) : ~Comp(comp, m[q + 1], m[p + 1])}

\* positions of [f, l) of m that come before no element of the range
Maximal(m, f, l, comp) ==
    {p \in f..(l - 1) : \A q \in f..(l - 1) : ~Comp(comp, m[p + 1], m[q + 1])}

\* the call was made on the whole of container c with std::less
OnWhole(c) ==
    /\ call.before = c
    /\ call.first = 0 /\ call.last = Len(c)
    /\ call.comp = "less"

\* C16: min_element returns the first of the minimal elements, max_element
\* the last of the maximal ones (positions 3 and 4 on 2,5,5,1,5); on an
\* empty range both return the end and dereference nothing.
C16_FirstMinLastMax ==
    /\ (call.op \in {"min_element", "max_element"} /\ call.first = call.last) =>
          (call.ret = call.last /\ call.reads = <<>> /\ call.comps = 0)
    /\ (call.op = "min_element" /\ call.first # call.last) =>
          call.ret = Least(Minimal(call.before, call.first, call.last, call.comp))
    /\ (call.op = "max_element" /\ call.first # call.last) =>
          call.ret = Greatest(Maximal(call.before, call.first, call.last, call.comp))
    /\ (call.op = "min_element" /\ OnWhole(<<2, 5, 5, 1, 5>>)) => call.ret = 3
    /\ (call.op = "max_element" /\ OnWhole(<<2, 5, 5, 1, 5>>)) => call.ret = 4

\* max_element on 2,5,5,1,5 returned the last 5
C16_Witness ==
    /\ call.op = "max_element"
    /\ OnWhole(<<2, 5, 5, 1, 5>>)
    /\ call.ret = 4

\* C17: on a non-empty range minmax_element returns the first minimal and the
\* last maximal element, the pair naive_minmax_element returns (positions 1
\* and 5 on 3,1,4,1,5,9,2,6).
C17_MinmaxIsNaiveMinmax ==
    (call.op = "minmax_element" /\ call.first # call.last) =>
        /\ call.ret = <<Least(Minimal(call.before, call.first, call.last, call.comp)),
                        Greatest(Maximal(call.before, call.first, call.last, call.comp))>>
        /\ call.ret = naive_minmax_element(call.before, call.first, call.last,
                                           call.comp).ret
        /\ OnWhole(<<3, 1, 4, 1, 5, 9, 2, 6>>) => call.ret = <<1, 5>>

\* C18: minmax_element returns (end, end) on an empty range and (pos, pos) on
\* a range of one element, without calling the comparator or dereferencing.
C18_BaseCasesWithoutComparing ==
    (call.op = "minmax_element") =>
        /\ call.first = call.last =>
              (call.ret = <<call.last, call.last>> /\ call.comps = 0
               /\ call.reads = <<>>)
        /\ call.first + 1 = call.last =>
              (call.ret = <<call.first, call.first>> /\ call.comps = 0
               /\ call.reads = <<>>)

\* a range of one element, not at the start of its container
C18_Witness ==
    /\ call.op = "minmax_element"
    /\ call.first = 2 /\ call.last = 3
    /\ call.ret = <<2, 2>>

\* C19: minmax_element calls the comparator at most 3n/2 times on n elements.
C19_AtMostThreeHalvesComparisons ==
    (call.op = "minmax_element") =>
        2 * call.comps <= 3 * (call.last - call.first)

\* five elements: one comparison to start, three for the pair, two for the
\* unpaired last element
C19_Witness ==
    /\ call.op = "minmax_element"
    /\ call.last - call.first = 5
    /\ call.comps = 6

\* ------------------------------------------------- search: partition point
\* The elements are truth values; a call yields the cursor returned (ret),
\* the count n left when the loop ended, and the positions whose element the
\* predicate was given (reads, in order).

\* the predicates: x -> x, its std::not_fn, and binary_search's closure
\* [&value](const T& other) { return other < value; }
IsTrue == [kind |-> "is_true", value |-> 0]
IsFalse == [kind |-> "is_false", value |-> 0]
LessThan(value) == [kind |-> "less", value |-> value]

Holds(p, x) == CASE p.kind = "is_true" -> x
                 [] p.kind = "is_false" -> ~x
                 [] OTHER -> x < p.value

\* the cursor of a call that ran off the end of its container
Overrun == -4

\* std::uint64_t n wraps to 0 after Wrap - 1 (2^64 in the source; here a
\* power of two above every length of a container)
Wrap == 32

\* next(first, n) for a forward cursor: while (n != 0) { ++first; ++n; }
\* steps counts the increments of first; ++ on the end cursor of the
\* container is undefined
RECURSIVE next_forward(_, _, _, _)
next_forward(m, fst, n, steps) ==
    IF n = 0 THEN [ret |-> fst, steps |-> steps]
    ELSE IF fst >= Len(m) THEN [ret |-> Overrun, steps |-> steps + 1]
    ELSE next_forward(m, fst + 1, (n + 1) % Wrap, steps + 1)

\* next(first, n) for a random access cursor: first + n
next_random_access(fst, n) == fst + n

\* slip: first = mid, the element at mid is not stepped over
RECURSIVE partition_point_n_keeps_mid(_, _, _, _, _)
partition_point_n_keeps_mid(m, fst, n, p, reads) ==
    IF n # 0
    THEN LET half == n \div 2
             mid == next_random_access(fst, half)
         IN  IF Holds(p, m[mid + 1])
             THEN partition_point_n_keeps_mid(m, mid, n - (half + 1), p,
                                              Append(reads, mid))
             ELSE partition_point_n_keeps_mid(m, fst, half, p, Append(reads, mid))
    ELSE [ret |-> fst, n |-> n, reads |-> reads]

\* slip: half is always 0, the range is walked one element at a time
RECURSIVE partition_point_n_linear(_, _, _, _, _)
partition_point_n_linear(m, fst, n, p, reads) ==
    IF n # 0
    THEN LET half == 0
             mid == next_random_access(fst, half)
         IN  IF Holds(p, m[mid + 1])
             THEN partition_point_n_linear(m, next_random_access(mid, 1),
                                           n - (half + 1), p, Append(reads, mid))
             ELSE partition_point_n_linear(m, fst, half, p, Append(reads, mid))
    ELSE [ret |-> fst, n |-> n, reads |-> reads]

\* partition_point_n(first, n, pred): halve the counted range around mid
RECURSIVE partition_point_n(_, _, _, _, _)
partition_point_n(m, fst, n, p, reads) ==
    IF n # 0
    THEN LET half == n \div 2
             mid == next_random_access(fst, half)
         IN  IF Holds(p, m[mid + 1])
             THEN partition_point_n(m, next_random_access(mid, 1), n - (half + 1),
                                    p, Append(reads, mid))
             ELSE partition_point_n(m, fst, half, p, Append(reads, mid))
    ELSE [ret |-> fst, n |-> n, reads |-> reads]

\* partition_point_n with forward cursors: the same loop, stepping with
\* next_forward; it ends where a step runs off the container
RECURSIVE partition_point_n_forward(_, _, _, _, _, _)
partition_point_n_forward(m, fst, n, p, reads, steps) ==
    IF n # 0
    THEN LET half == n \div 2
             mid == next_forward(m, fst, half, steps)
         IN  IF mid.ret = Overrun
             THEN [ret |-> Overrun, n |-> n, reads |-> reads, steps |-> mid.steps]
             ELSE IF Holds(p, m[mid.ret + 1])
             THEN LET nxt == next_forward(m, mid.ret, 1, mid.steps)
                  IN  IF nxt.ret = Overrun
                      THEN [ret |-> Overrun, n |-> n,
                            reads |-> Append(reads, mid.ret), steps |-> nxt.steps]
                      ELSE partition_point_n_forward(m, nxt.ret, n - (half + 1), p,
                                                     Append(reads, mid.ret), nxt.steps)
             ELSE partition_point_n_forward(m, fst, half, p,
                                            Append(reads, mid.ret), mid.steps)
    ELSE [ret |-> fst, n |-> n, reads |-> reads, steps |-> steps]

\* partition_point(first, last, pred): the same loop on
\* n = std::distance(first, last), returning the cursor only
partition_point(m, fst, lst, p) ==
    LET r == partition_point_n(m, fst, lst - fst, p, <<>>)
    IN  [ret |-> r.ret, reads |-> r.reads]

\* slip: --n comes before the test, the element found is not counted
RECURSIVE find_if_n_uncounted(_, _, _, _, _)
find_if_n_uncounted(m, fst, n, p, reads) ==
    IF n # 0
    THEN IF Holds(p, m[fst + 1])
         THEN [ret |-> fst, n |-> n - 1, reads |-> Append(reads, fst)]
         ELSE find_if_n_uncounted(m, fst + 1, n - 1, p, Append(reads, fst))
    ELSE [ret |-> fst, n |-> n, reads |-> reads]

\* find_if_n(first, n, pred): while (n) { if (pred(*first)) break; --n;
\* ++first; } return {first, n};
RECURSIVE find_if_n(_, _, _, _, _)
find_if_n(m, fst, n, p, reads) ==
    IF n # 0
    THEN IF Holds(p, m[fst + 1])
         THEN [ret |-> fst, n |-> n, reads |-> Append(reads, fst)]
         ELSE find_if_n(m, fst + 1, n - 1, p, Append(reads, fst))
    ELSE [ret |-> fst, n |-> n, reads |-> reads]

\* slip: the test *found == value is left out
binary_search_any_found(m, fst, lst, value) ==
    LET pp == partition_point(m, fst, lst, LessThan(value))
    IN  [ret |-> pp.ret # lst, found |-> pp.ret, reads |-> pp.reads]

\* slip: the element at first is compared, not the one at found
binary_search_compares_first(m, fst, lst, value) ==
    LET pp == partition_point(m, fst, lst, LessThan(value))
    IN  [ret |-> pp.ret # lst /\ m[fst + 1] = value, found |-> pp.ret,
         reads |-> IF pp.ret # lst THEN Append(pp.reads, fst) ELSE pp.reads]

\* binary_search(first, last, value): found = partition_point(first, last,
\* other < value); found != last and *found == value
binary_search(m, fst, lst, value) ==
    LET pp == partition_point(m, fst, lst, LessThan(value))
    IN  [ret |-> pp.ret # lst /\ m[pp.ret + 1] = value, found |-> pp.ret,
         reads |-> IF pp.ret # lst THEN Append(pp.reads, pp.ret) ELSE pp.reads]

\* the values a container of numbers holds, and those searched for
SearchElems == 0..(MaxVal + 1)
SearchValues == 0..(MaxVal + 4)

SearchInit ==
    /\ ParOff
    /\ \/ mode = "search" /\ mem \in SeqsUpTo(BOOLEAN, MaxPP)
       \/ mode = "search_int"
          /\ mem \in SeqsUpTo(SearchElems, MaxBS) \cup {<<1, 3, 3, 5, 7, 9>>}
    /\ lambda = "none"
    /\ i = 0
    /\ call = NoCall

SearchCalled(op, r, p, res) ==
    [op |-> op, first |-> r[1], last |-> r[2], pred |-> p, before |-> mem,
     ret |-> res.ret, reads |-> res.reads]

Search ==
    /\ mode \in {"search", "search_int"} /\ call.op = "none"
    /\ UNCHANGED <<mem, mode, lambda, i>>
    /\ UNCHANGED parvars

\* the predicates a caller may pass for the elements of its container
SearchPreds == IF mode = "search" THEN {IsTrue, IsFalse}
               ELSE {LessThan(v) : v \in SearchValues}

CallPartitionPoint ==
    /\ Search
    /\ \E r \in Ranges, p \in SearchPreds :
          call' = SearchCalled("partition_point", r, p,
                               partition_point(mem, r[1], r[2], p))

\* partition_point_n(first, n, pred) -> {cursor, n}; the counted range is
\* [r[1], r[1] + n) with n = r[2] - r[1]
CallPartitionPointN ==
    /\ Search
    /\ \E r \in Ranges, p \in SearchPreds :
          LET res == partition_point_n(mem, r[1], r[2] - r[1], p, <<>>)
          IN  call' = SearchCalled("partition_point_n", r, p, res)
                          @@ [n |-> res.n]

\* what a call that ran into undefined behaviour may yield: it does not
\* return, or it returns any cursor
Undefined == {NoReturn} \cup (0..Len(mem))

\* next(first, k) on a forward cursor
CallNextForward ==
    /\ Search
    /\ \E r \in Ranges :
          LET res == next_forward(mem, r[1], r[2] - r[1], 0)
          IN  \E out \in (IF res.ret = Overrun THEN Undefined ELSE {res.ret}) :
                 call' = SearchCalled("next_forward", r, IsTrue,
                                      [ret |-> out, reads |-> <<>>])
                             @@ [steps |-> res.steps, overrun |-> res.ret = Overrun]

\* partition_point_n(first, n, pred) on forward cursors
CallPartitionPointNForward ==
    /\ Search
    /\ \E r \in Ranges, p \in SearchPreds :
          LET res == partition_point_n_forward(mem, r[1], r[2] - r[1], p, <<>>, 0)
          IN  \E out \in (IF res.ret = Overrun THEN Undefined ELSE {res.ret}) :
                 call' = SearchCalled("partition_point_n_forward", r, p,
                                      [ret |-> out, reads |-> res.reads])
                             @@ [steps |-> res.steps, overrun |-> res.ret = Overrun]

CallFindIfN ==
    /\ Search
    /\ \E r \in Ranges, p \in SearchPreds :
          LET res == find_if_n(mem, r[1], r[2] - r[1], p, <<>>)
          IN  call' = SearchCalled("find_if_n", r, p, res)
                          @@ [n |-> res.n, origin |-> r]

\* find_if_n called again behind the element it found: on (pos + 1, m - 1)
CallFindIfNAgain ==
    /\ mode \in {"search", "search_int"}
    /\ call.op = "find_if_n" /\ call.n # 0
    /\ LET res == find_if_n(mem, call.ret + 1, call.n - 1, call.pred, <<>>)
       IN  call' = SearchCalled("find_if_n_again",
                                <<call.ret + 1, call.ret + call.n>>, call.pred, res)
                       @@ [n |-> res.n, origin |-> call.origin]
    /\ UNCHANGED <<mem, mode, lambda, i>>
    /\ UNCHANGED parvars

CallBinarySearch ==
    /\ Search /\ mode = "search_int"
    /\ \E r \in Ranges, v \in SearchValues :
          LET res == binary_search(mem, r[1], r[2], v)
          IN  call' = SearchCalled("binary_search", r, LessThan(v), res)
                          @@ [value |-> v, found |-> res.found]

SearchNext ==
    \/ CallPartitionPoint
    \/ CallPartitionPointN
    \/ CallNextForward
    \/ CallPartitionPointNForward
    \/ CallFindIfN
    \/ CallFindIfNAgain
    \/ CallBinarySearch

SearchSpec == SearchInit /\ [][SearchNext]_vars

\* ---------------------------------------------------------- search: claims
\* positions of [f, l) of m whose element satisfies p
Satisfying(m, f, l, p) == {q \in f..(l - 1) : Holds(p, m[q + 1])}

\* [f, l) of m is partitioned by p: no satisfying element after another one
Partitioned(m, f, l, p) ==
    \A a, b \in f..(l - 1) : (a < b /\ Holds(p, m[b + 1])) => Holds(p, m[a + 1])

\* C20: on a range partitioned by pred, with k elements satisfying it,
\* partition_point returns first + k: position 3 on T,T,T,F,F, the end when
\* all satisfy pred and the begin when none does.
C20_PartitionPointIsFirstPlusK ==
    (/\ call.op = "partition_point"
     /\ Partitioned(call.before, call.first, call.last, call.pred)) =>
        LET k == Cardinality(Satisfying(call.before, call.first, call.last, call.pred))
        IN  /\ call.ret = call.first + k
            /\ k = call.last - call.first => call.ret = call.last
            /\ k = 0 => call.ret = call.first
            /\ (/\ call.before = <<TRUE, TRUE, TRUE, FALSE, FALSE>>
                /\ call.first = 0 /\ call.last = 5
                /\ call.pred = IsTrue) => call.ret = 3

\* partition_point on T,T,T,F,F returned position 3
C20_Witness ==
    /\ call.op = "partition_point"
    /\ call.before = <<TRUE, TRUE, TRUE, FALSE, FALSE>>
    /\ call.first = 0 /\ call.last = 5
    /\ call.pred = IsTrue
    /\ call.ret = 3

\* C21: partition_point_n returns, with the cursor of the partition point,
\* the number of elements from that cursor to the end of the counted range.
C21_ReturnsRemainingCount ==
    (/\ call.op = "partition_point_n"
     /\ Partitioned(call.before, call.first, call.last, call.pred)) =>
        /\ call.ret = call.first
                      + Cardinality(Satisfying(call.before, call.first, call.last,
                                               call.pred))
        /\ call.n = call.last - call.ret

\* C22: on forward cursors next(first, k) makes k increments and returns
\* first + k, and partition_point_n returns the partition point it returns
\* with random access cursors, within n positional steps.
C22_ForwardNextAdvancesK ==
    /\ (call.op = "next_forward") =>
          /\ ~call.overrun
          /\ call.steps = call.last - call.first
          /\ call.ret = call.last
    /\ (call.op = "partition_point_n_forward") =>
          /\ ~call.overrun
          /\ call.ret = partition_point_n(call.before, call.first,
                                          call.last - call.first, call.pred, <<>>).ret
          /\ call.steps <= call.last - call.first

\* [f, l) of m is sorted by <
Sorted(m, f, l) == \A a, b \in f..(l - 1) : a < b => ~(m[b + 1] < m[a + 1])

\* value occurs in [f, l) of m
Occurs(m, f, l, value) == \E q \in f..(l - 1) : m[q + 1] = value

PartitionedByNotGreater(m, f, l, value) ==
    \A a, b \in f..(l - 1) : (a < b /\ ~(value < m[b + 1])) => ~(value < m[a + 1])

Matching(c) == Satisfying(c.before, c.origin[1], c.origin[2], c.pred)

\* C27: find_if_n returns (pos, m) with (pos - first) + m = n; m is 0 iff no
\* element of the counted range satisfies pred, else pos is the first that
\* does; called again on (pos + 1, m - 1) it finds the second one; no
\* position at or beyond first + n is read.
C27_FindIfNKeepsCount ==
    /\ (call.op = "find_if_n") =>
          /\ (call.ret - call.first) + call.n = call.last - call.first
          /\ call.n = 0 <=> Matching(call) = {}
          /\ call.n # 0 => call.ret = Least(Matching(call))
          /\ \A k \in 1..Len(call.reads) :
                call.reads[k] >= call.first /\ call.reads[k] < call.last
    /\ (call.op = "find_if_n_again") =>
          /\ (call.ret - call.first) + call.n = call.last - call.first
          /\ call.last = call.origin[2]
          /\ Cardinality(Matching(call)) >= 2 =>
                call.ret = Least(Matching(call) \ {Least(Matching(call))})
          /\ Cardinality(Matching(call)) = 1 =>
                (call.n = 0 /\ call.ret = call.origin[2])
          /\ \A k \in 1..Len(call.reads) :
                call.reads[k] >= call.first /\ call.reads[k] < call.last

\* the second call found the second of two matches that are apart
C27_Witness ==
    /\ call.op = "find_if_n_again"
    /\ Cardinality(Matching(call)) >= 2
    /\ call.ret > call.first
    /\ call.n >= 2
    /\ call.origin[1] = 1

\* floor(log2(n)) + 1 for n >= 1, and 0 for n = 0: the number of binary digits
RECURSIVE Digits(_)
Digits(n) == IF n = 0 THEN 0 ELSE 1 + Digits(n \div 2)

\* C30: for every predicate, partitioned or not, the loop of partition_point
\* and partition_point_n with random access ends, gives the predicate only
\* elements of [first, first + n), at most floor(log2(n)) + 1 of them (none
\* for n = 0), and returns a position in [first, first + n].
C30_LogarithmicAndInBounds ==
    (call.op \in {"partition_point", "partition_point_n"}) =>
        /\ Len(call.reads) <= Digits(call.last - call.first)
        /\ \A k \in 1..Len(call.reads) :
              call.reads[k] >= call.first /\ call.reads[k] < call.last
        /\ call.ret >= call.first /\ call.ret <= call.last

\* four elements that are not partitioned took three evaluations
C30_Witness ==
    /\ call.op = "partition_point"
    /\ call.last - call.first = 4
    /\ ~Partitioned(call.before, call.first, call.last, call.pred)
    /\ Len(call.reads) = 3
    /\ call.first = 1

\* ---------------------------------------------------- minmax: more claims
\* C29: in minmax_element on two or more elements, once the first two are
\* ordered and after every iteration of the pair loop the element at minimum
\* is not greater than the element at maximum; at return no element of the
\* range is less than the one at minimum or greater than the one at maximum.
C29_MinimumNeverAboveMaximum ==
    (call.op = "minmax_element" /\ call.last - call.first >= 2) =>
        /\ \A k \in 1..Len(call.steps) :
              ~Comp(call.comp, call.before[call.steps[k][2] + 1],
                    call.before[call.steps[k][1] + 1])
        /\ call.ret[1] \in Minimal(call.before, call.first, call.last, call.comp)
        /\ call.ret[2] \in Maximal(call.before, call.first, call.last, call.comp)

\* C26: min(a, b, comp) returns b only when comp(b, a), else a; max(a, b,
\* comp) returns a only when comp(b, a), else b; on equivalent arguments min
\* returns the first and max the second, and min and max of the same pair
\* return different arguments. (first, last are the arguments a, b.)
C26_MinAndMaxOfTwo ==
    (call.op \in {"min", "max"}) =>
        LET a == call.first
            b == call.last
            b_before_a == Comp(call.comp, call.before[b + 1], call.before[a + 1])
            a_before_b == Comp(call.comp, call.before[a + 1], call.before[b + 1])
            mn == min(call.before, a, b, call.comp).ret
            mx == max(call.before, a, b, call.comp).ret
        IN  /\ call.op = "min" => call.ret = (IF b_before_a THEN b ELSE a)
            /\ call.op = "max" => call.ret = (IF b_before_a THEN a ELSE b)
            /\ call.comps = 1
            /\ (~b_before_a /\ ~a_before_b) => (mn = a /\ mx = b)
            /\ {mn, mx} = {a, b}
            /\ a # b => mn # mx
            /\ call.ret = (IF call.op = "min" THEN mn ELSE mx)

\* max of two equivalent elements that are different values returned the second
C26_Witness ==
    /\ call.op = "max"
    /\ call.comp = "less_half"
    /\ call.before[call.first + 1] # call.before[call.last + 1]
    /\ ~Comp(call.comp, call.before[call.first + 1], call.before[call.last + 1])
    /\ ~Comp(call.comp, call.before[call.last + 1], call.before[call.first + 1])
    /\ call.ret = call.last

\* ------------------------------------------- 3.iterators: timer::repeat
\* A double is modelled by the exact fraction <<numerator, denominator>>.
Double(n) == <<n, 1>>
DAdd(x, y) == <<x[1] * y[2] + y[1] * x[2], x[2] * y[2]>>
DSub(x, y) == <<x[1] * y[2] - y[1] * x[2], x[2] * y[2]>>
DDiv(x, n) == <<x[1], x[2] * n>>
DEq(x, y) == x[1] * y[2] = y[1] * x[2]

\* [mean](double init, double current) { return init + current - mean; }
deviation(mean, init, current) == DSub(DAdd(init, Double(current)), mean)

\* reduce(times.begin(), times.end(), 0.0, closure): init = fn(init, *first)
RECURSIVE reduce_deviation(_, _, _, _, _)
reduce_deviation(m, fst, lst, init, mean) ==
    IF fst = lst THEN init
    ELSE reduce_deviation(m, fst + 1, lst, deviation(mean, init, m[fst + 1]), mean)

\* the statistics repeat prints: mean and the operand of std::sqrt
Report(times) ==
    LET mean == DDiv(Double(reduce2(times, 0, Len(times)).ret), Len(times))
        variance_sum == reduce_deviation(times, 0, Len(times), Double(0), mean)
    IN  [mean |-> mean, variance_sum |-> variance_sum,
         radicand |-> DDiv(variance_sum, Len(times))]

\* one call repeat(fn, repeats, tests, s); mem is the vector `times`
RepeatInit ==
    /\ ParOff
    /\ mode = "repeat"
    /\ mem = <<>>
    /\ lambda = "none"
    /\ i = 0
    /\ \E repeats \in 0..MaxRepeats, tests \in 1..MaxTests :
          call = [op |-> "repeat", pc |-> "tests", repeats0 |-> repeats,
                  tests0 |-> tests, repeats |-> 0, tests |-> tests, runs |-> 0,
                  mean |-> Double(0), variance_sum |-> Double(0),
                  radicand |-> Double(0)]

Repeat(pc) ==
    /\ mode = "repeat" /\ call.pc = pc
    /\ UNCHANGED <<mode, lambda, i>>
    /\ UNCHANGED parvars

\* while (tests--): enter time(fn, repeats), or leave the loop
RepeatTests ==
    /\ Repeat("tests")
    /\ call' = IF call.tests # 0
               THEN [call EXCEPT !.tests = @ - 1, !.repeats = call.repeats0,
                                 !.pc = "time"]
               ELSE [call EXCEPT !.pc = "report"]
    /\ UNCHANGED mem

\* time: while (repeats--) fn();
TimeFn ==
    /\ Repeat("time")
    /\ call.repeats # 0
    /\ call' = [call EXCEPT !.repeats = @ - 1, !.runs = @ + 1]
    /\ UNCHANGED mem

\* time: the loop is over; end - start is whatever the clock says
TimeReturn ==
    /\ Repeat("time")
    /\ call.repeats = 0
    /\ \E ticks \in 0..MaxTick : mem' = Append(mem, ticks)
    /\ call' = [call EXCEPT !.pc = "tests"]

\* mean, variance_sum and the print
RepeatReport ==
    /\ Repeat("report")
    /\ LET r == Report(mem)
       IN  call' = [call EXCEPT !.pc = "done", !.mean = r.mean,
                                !.variance_sum = r.variance_sum,
                                !.radicand = r.radicand]
    /\ UNCHANGED mem

RepeatNext ==
    \/ RepeatTests
    \/ TimeFn
    \/ TimeReturn
    \/ RepeatReport

RepeatSpec == RepeatInit /\ [][RepeatNext]_vars

\* the mean of the squared deviations of the trial times from their mean
MeanSquaredDeviation(times) ==
    LET n == Len(times)
        total == reduce2(times, 0, n).ret
        RECURSIVE Squares(_)
        Squares(k) == IF k = 0 THEN 0
                      ELSE Squares(k - 1) + (n * times[k] - total) * (n * times[k] - total)
    IN  <<Squares(n), n * n * n>>

\* C25: repeat(fn, repeats, tests, label) runs fn exactly repeats * tests
\* times and prints the mean of the `tests` trial times together with the
\* square root of the mean of their squared deviations, which is not zero
\* when the trial times differ.
C25_MeanAndStandardDeviation ==
    (mode = "repeat" /\ call.pc = "done") =>
        /\ call.runs = call.repeats0 * call.tests0
        /\ Len(mem) = call.tests0
        /\ DEq(call.mean, <<reduce2(mem, 0, Len(mem)).ret, Len(mem)>>)
        /\ DEq(call.radicand, MeanSquaredDeviation(mem))
        /\ (\E a, b \in 1..Len(mem) : mem[a] # mem[b]) => call.radicand[1] # 0

\* ------------------------------------- 5.parallel: timer::time, test_sort
\* std::sort(policy, first, last) with the default comparison
RECURSIVE insert_sorted(_, _)
insert_sorted(s, x) ==
    IF s = <<>> THEN <<x>>
    ELSE IF x < Head(s) THEN <<x>> \o s
    ELSE <<Head(s)>> \o insert_sorted(Tail(s), x)

RECURSIVE std_sort(_)
std_sort(s) == IF s = <<>> THEN <<>>
               ELSE insert_sorted(std_sort(Tail(s)), Head(s))

\* the closures of test_sort, in the order they are timed
SortLambdas == <<"sort_seq", "sort_par", "sort_par_unseq", "sort_unseq">>

\* slip: the empty init of time_print(fn, repeats, string)
init_nothing(v, v_copy) == v_copy

\* init = [&vec, &vec_copy]() { vec_copy = vec; }: the new vec_copy
init(v, v_copy) == v

\* test_sort before its first time_print; mem is vec
SortInit ==
    /\ ParOff
    /\ mode = "sort"
    /\ mem \in SeqsUpTo(0..(MaxVal + 1), MaxSort)
    /\ lambda = "none"
    /\ i = 0
    /\ call = [op |-> "time", pc |-> "test_sort", repeats0 |-> 0, repeats |-> 0,
               vec_copy |-> mem, log |-> <<>>, stale |-> 0]

Sorting(pc) ==
    /\ mode = "sort" /\ call.pc = pc
    /\ UNCHANGED <<mem, mode>>
    /\ UNCHANGED parvars

\* the next timer::time_print(init, sort_X, repeats, string) of test_sort
\* calls time(init, fn, repeats); test_sort passes 5, any count up to
\* MaxRepeats is tried here
TimePrint ==
    /\ Sorting("test_sort")
    /\ i < Len(SortLambdas)
    /\ i' = i + 1
    /\ lambda' = SortLambdas[i + 1]
    /\ \E repeats \in 0..MaxRepeats :
          call' = [call EXCEPT !.pc = "while", !.repeats0 = repeats,
                               !.repeats = repeats, !.log = <<>>]

\* while (repeats--): the body, or return total and print
TimeWhile ==
    /\ Sorting("while")
    /\ call' = IF call.repeats # 0
               THEN [call EXCEPT !.repeats = @ - 1, !.pc = "init"]
               ELSE [call EXCEPT !.pc = "test_sort"]
    /\ lambda' = IF call.repeats # 0 THEN lambda ELSE "none"
    /\ UNCHANGED i

\* init();
TimeInit ==
    /\ Sorting("init")
    /\ call' = [call EXCEPT !.vec_copy = init(mem, @), !.pc = "fn",
                            !.log = Append(@, "init")]
    /\ UNCHANGED <<lambda, i>>

\* fn(); between the two readings of the clock
TimeSort ==
    /\ Sorting("fn")
    /\ call' = [call EXCEPT !.vec_copy = std_sort(@), !.pc = "while",
                            !.log = Append(@, "fn"),
                            !.stale = IF call.vec_copy = mem THEN @ ELSE @ + 1]
    /\ UNCHANGED <<lambda, i>>

SortNext ==
    \/ TimePrint
    \/ TimeWhile
    \/ TimeInit
    \/ TimeSort

SortSpec == SortInit /\ [][SortNext]_vars

\* C28: time(init, fn, repeats) calls init and fn in strict alternation,
\* init first, each exactly `repeats` times by the time it returns; in
\* test_sort every timed sort starts from a copy of the unsorted vector,
\* never from what an earlier sort left.
C28_InitBeforeEverySort ==
    (mode = "sort") =>
        /\ \A k \in 1..Len(call.log) :
              call.log[k] = (IF k % 2 = 1 THEN "init" ELSE "fn")
        /\ Len(call.log) = 2 * (call.repeats0 - call.repeats)
                               - (IF call.pc = "init" THEN 2 ELSE IF call.pc = "fn" THEN 1 ELSE 0)
        /\ (call.pc = "test_sort") => Len(call.log) = 2 * call.repeats0
        /\ (call.pc = "fn") => call.vec_copy = mem
        /\ call.stale = 0

\* the third closure was timed five times on a vector that was not sorted
C28_Witness ==
    /\ mode = "sort"
    /\ call.pc = "test_sort"
    /\ i = 3
    /\ call.repeats0 = 5
    /\ Len(call.log) = 10
    /\ mem # std_sort(mem)
    /\ call.vec_copy = std_sort(mem)

====
